---- MODULE Spec2Model ----
(***************************************************************************)
(* Model of the DNS load balancer of dns-last: the health-check scheduler  *)
(* (DNSLoadBalancerService), the per-server evaluation, the selection of   *)
(* the advertised server, the DNS record it persists, and the BIND9 zone   *)
(* synthesis (syncBind9 / createZoneFile).                                 *)
(*                                                                         *)
(* Strings that the code inspects (record names, domain names) are         *)
(* sequences of one-character strings, so that endsWith / includes /       *)
(* replace are computed as JavaScript computes them.                       *)
(***************************************************************************)
EXTENDS Integers, Sequences, FiniteSets, TLC

VARIABLES
    isRunning,            \* DNSLoadBalancerService.isRunning
    healthCheckInterval,  \* DNSLoadBalancerService.healthCheckInterval (NoTimer = null)
    timers,               \* interval timers armed in the event loop, each named by the
                          \* run of startHealthChecks that called setInterval
    exited,               \* process.exit(0) was called
    cycles,               \* runs of performHealthChecks / of the update-dns route, by id
    nextCycle,            \* id of the next run
    health,               \* table DNSServerHealth: its rows, in order of insertion
    records,              \* table DNSRecord: domain -> sequence of rows
    sync,                 \* the run of syncBind9 in progress
    syncRuns,             \* number of syncBind9 runs begun
    zoneFiles,            \* /etc/bind/zones/<domain>.zone: domain -> lines, NoFile when absent
    namedConf,            \* zones listed in named.conf.local
    algorithm,            \* DNSLoadBalancer.algorithm of the balancer
    lbServers,            \* the DNSServer rows of the balancer, in the order loaded
    stopped,              \* stopHealthChecks has been called at least once
    evalIn,               \* inputs of one evaluation checked on its own (NoInput otherwise)
    evalOut,              \* its result
    lastReload,           \* how the last call of a reloadBind9 went (NoReloadError when
                          \* `rndc reload` succeeded or none was made)
    removal               \* the DELETE /:id/servers/:serverId request, if any

vars == <<isRunning, healthCheckInterval, timers, exited, cycles, nextCycle,
          health, records, sync, syncRuns, zoneFiles, namedConf, algorithm,
          lbServers, stopped, evalIn, evalOut, lastReload,
                   removal>>

----------------------------------------------------------------------------
(* Bounds of the model *)

MaxCycles == 3
MaxConcurrent == 2
MaxSyncs == 1
MaxServers == 3
MaxLabels == 6

----------------------------------------------------------------------------
(* JavaScript string helpers, on sequences of characters *)

startsWithAt(s, sub, i) ==
    /\ i + Len(sub) - 1 <= Len(s)
    /\ \A k \in 1..Len(sub) : s[i + k - 1] = sub[k]

endsWith(s, suf) ==
    /\ Len(suf) <= Len(s)
    /\ \A k \in 1..Len(suf) : s[Len(s) - Len(suf) + k] = suf[k]

includes(s, sub) == \E i \in 1..(Len(s) + 1) : startsWithAt(s, sub, i)

indexOf(s, sub) ==
    IF includes(s, sub)
    THEN CHOOSE i \in 1..(Len(s) + 1) :
            /\ startsWithAt(s, sub, i)
            /\ \A j \in 1..(i - 1) : ~startsWithAt(s, sub, j)
    ELSE 0

\* String.prototype.replace with a string pattern: the first occurrence only.
replace(s, sub, rep) ==
    LET i == indexOf(s, sub)
    IN  IF i = 0 THEN s
        ELSE SubSeq(s, 1, i - 1) \o rep \o SubSeq(s, i + Len(sub), Len(s))

Max(a, b) == IF a >= b THEN a ELSE b
Min(a, b) == IF a <= b THEN a ELSE b

----------------------------------------------------------------------------
(* The configuration held in the database: one domain and one balancer    *)
(* bound to it.  ServerPool are the server rows the model knows; Servers   *)
(* is the balancer's list (lb.servers) in the scheduler and pipeline       *)
(* specifications.                                                         *)

Domains == <<"d1", "d2">>
DomainIds == {Domains[i] : i \in 1..Len(Domains)}
domainName(d) == IF d = "d1" THEN <<"d", ".", "c">> ELSE <<"e", ".", "c">>

lbName == <<"w">>
lbDomain == "d1"
lbIsActive == TRUE

ServerPool == <<"s1", "s2", "s3", "s4">>
ServerIds == {ServerPool[i] : i \in 1..Len(ServerPool)}
Servers == <<"s1">>
SchedServers == <<"s3">>
NoServer == "none"

\* An IPv4 literal is one opaque token: the code never looks inside it.
serverIp(s) ==
    IF s = "s1" THEN <<"10.0.0.1">> ELSE IF s = "s2" THEN <<"10.0.0.2">>
    ELSE IF s = "s3" THEN <<"10.0.0.3">> ELSE <<"10.0.0.4">>
serverPort(s) ==
    IF s = "s1" THEN 80 ELSE IF s = "s2" THEN 53 ELSE IF s = "s3" THEN 8080 ELSE 443
\* The column takes any integer: s4 is a server stored with weight 0.
serverWeight(s) ==
    IF s = "s1" THEN 20 ELSE IF s = "s2" THEN 10 ELSE IF s = "s3" THEN 5 ELSE 0
serverIsActive(s) == TRUE

Algorithms == {"round-robin", "weighted", "health-based", "least-conn"}

NoHealth == [status |-> "none"]
NoTimer == 0
NoInput == [port |-> 0]
\* A zone file always holds the preamble: the empty text stands for no file.
NoFile == <<>>

\* Values the measured quantities are drawn from.
ElapsedSamples == {20}
MetricsSamples ==
    { [uptime |-> 7200, load |-> 1, memoryUsage |-> 50, diskUsage |-> 50] }

\* The wider ranges an evaluation checked on its own is drawn from.
Ports == {53, 80, 443, 8080}
EvalElapsed == {0, 20, 150}
EvalMetrics ==
    MetricsSamples \cup { [uptime |-> 0, load |-> 5, memoryUsage |-> 100, diskUsage |-> 0] }

----------------------------------------------------------------------------
(* Evaluation of one server: checkServerHealth *)

\* pingTest: `ping -c 1 -W 5`; any failure is { unhealthy, -1 }.
pingTest(pingOk, elapsed) ==
    IF pingOk THEN [status |-> "healthy", responseTime |-> elapsed]
    ELSE [status |-> "unhealthy", responseTime |-> -1]

\* dnsHealthCheck: issues no query; two consecutive Date.now() calls.
dnsHealthCheck ==
    [status |-> "healthy", responseTime |-> 0]

\* httpHealthCheck: GET /health, aborted after 5 s; response.ok or { unhealthy, -1 }.
httpHealthCheck(httpOk, elapsed) ==
    IF httpOk THEN [status |-> "healthy", responseTime |-> elapsed]
    ELSE [status |-> "unhealthy", responseTime |-> -1]

determineOverallStatusPingOnly(pingResult, portResult) ==
    IF pingResult.status = "healthy"
    THEN IF portResult.status = "healthy" \/ portResult.status = "unknown"
         THEN "healthy"
         ELSE "degraded"
    ELSE "unhealthy"

determineOverallStatus(pingResult, portResult) ==
    IF pingResult.status = "healthy"
    THEN IF portResult.status = "healthy" \/ portResult.status = "unknown"
         THEN "healthy"
         ELSE "degraded"
    ELSE IF portResult.status = "healthy"
         THEN "degraded"
         ELSE "unhealthy"

\* The port-specific probe chosen by checkServerHealth.
portCheck(port, pingResult, httpOk, httpElapsed) ==
    IF port = 53 THEN dnsHealthCheck
    ELSE IF port = 80 \/ port = 443 THEN httpHealthCheck(httpOk, httpElapsed)
    ELSE pingResult

checkServerHealth(port, pingOk, pingElapsed, httpOk, httpElapsed, metrics) ==
    LET pingResult == pingTest(pingOk, pingElapsed)
        portResult == portCheck(port, pingResult, httpOk, httpElapsed)
    IN  [ status |-> determineOverallStatus(pingResult, portResult),
          responseTime |-> portResult.responseTime,
          uptime |-> metrics.uptime,
          load |-> metrics.load,
          memoryUsage |-> metrics.memoryUsage,
          diskUsage |-> metrics.diskUsage ]

----------------------------------------------------------------------------
(* The table DNSServerHealth and updateServerHealth's upsert *)

\* The row an evaluation stores for server s.
healthRow(s, healthData) ==
    [ serverId |-> s, status |-> healthData.status,
      responseTime |-> healthData.responseTime, uptime |-> healthData.uptime,
      load |-> healthData.load, memoryUsage |-> healthData.memoryUsage,
      diskUsage |-> healthData.diskUsage ]

hasHealthRow(table, s) == \E i \in 1..Len(table) : table[i].serverId = s

\* `include: { health: true }`: the row of server s, NoHealth when it has none.
healthOf(table, s) ==
    IF hasHealthRow(table, s)
    THEN table[CHOOSE i \in 1..Len(table) :
                  /\ table[i].serverId = s
                  /\ \A j \in 1..(i - 1) : table[j].serverId # s]
    ELSE NoHealth

\* The health rows a query loads with the servers.
loadHealth(table) == [s \in ServerIds |-> healthOf(table, s)]

healthIndexAbsent(table, s) == FALSE

\* The unique index DNSServerHealth_serverId_key rejects a second row of s.
healthIndexRejects(table, s) == hasHealthRow(table, s)

\* prisma.dNSServerHealth.upsert({ where: { serverId }, update, create }):
\* `found` is what its lookup saw.  A lookup that preceded the insert of a
\* concurrent upsert saw no row; the create it then issues is rejected by the
\* unique index, and updateServerHealth logs the error.
\* DNSServerHealth_serverId_fkey: a row is inserted only for a server that
\* table DNSServer holds.
InList(s, l) == \E i \in 1..Len(l) : l[i] = s
healthFkRejects(servers, s) == ~InList(s, servers)

upsertHealth(table, s, healthData, found) ==
    IF found
    THEN [i \in 1..Len(table) |->
             IF table[i].serverId = s THEN healthRow(s, healthData) ELSE table[i]]
    ELSE IF healthIndexRejects(table, s) THEN table
    ELSE Append(table, healthRow(s, healthData))

----------------------------------------------------------------------------
(* Selection of the advertised server: updateDNSRecords and its helpers.   *)
(* `servers` is the balancer's server list as loaded (lb.servers), `h` the *)
(* health rows loaded with it (server.health).                             *)

\* loadBalancer.servers.filter(s => s.health?.status === 'healthy')
healthyServersOf(servers, h) ==
    SelectSeq(servers, LAMBDA s : h[s].status = "healthy")

updateRoundRobinFirst(healthyServers, nowSec) == healthyServers[1]

updateRoundRobinDNS(healthyServers, nowSec) ==
    healthyServers[(nowSec % Len(healthyServers)) + 1]

RECURSIVE SumWeights(_)
SumWeights(servers) ==
    IF servers = <<>> THEN 0
    ELSE serverWeight(Head(servers)) + SumWeights(Tail(servers))

\* The loop of updateWeightedDNS: random -= weight; if (random <= 0) pick.
RECURSIVE weightedWalk(_, _)
weightedWalk(servers, random) ==
    IF servers = <<>> THEN NoServer
    ELSE IF random - serverWeight(Head(servers)) <= 0 THEN Head(servers)
    ELSE weightedWalk(Tail(servers), random - serverWeight(Head(servers)))

updateWeightedDNS(healthyServers, random) == weightedWalk(healthyServers, random)

ScoreScale == 3600

\* calculateHealthScore, in units of 1/3600 so that uptime / 3600 stays exact.
calculateHealthScore(hr) ==
    IF hr = NoHealth THEN 0
    ELSE (IF hr.responseTime > 0 THEN ScoreScale * Max(0, 100 - hr.responseTime) ELSE 0)
         + Min(100 * ScoreScale, hr.uptime)
         + ScoreScale * Max(0, 100 - hr.load * 20)
         + ScoreScale * Max(0, 100 - hr.memoryUsage)
         + ScoreScale * Max(0, 100 - hr.diskUsage)

RECURSIVE reduceBestTiesLast(_, _, _)
reduceBestTiesLast(best, rest, h) ==
    IF rest = <<>> THEN best
    ELSE reduceBestTiesLast(
             IF calculateHealthScore(h[Head(rest)]) >= calculateHealthScore(h[best])
             THEN Head(rest) ELSE best,
             Tail(rest), h)

\* healthyServers.reduce((best, current) => currentScore > bestScore ? current : best)
RECURSIVE reduceBest(_, _, _)
reduceBest(best, rest, h) ==
    IF rest = <<>> THEN best
    ELSE reduceBest(IF calculateHealthScore(h[Head(rest)]) > calculateHealthScore(h[best])
                    THEN Head(rest) ELSE best,
                    Tail(rest), h)

updateHealthBasedDNS(healthyServers, h) ==
    reduceBest(Head(healthyServers), Tail(healthyServers), h)

\* Date.now() is read by updateRoundRobinDNS only; every value of
\* floor(Date.now() / 1000) modulo the list length is drawn.
nowSamples(alg, healthyServers) ==
    IF alg \in {"weighted", "health-based"} THEN {0} ELSE 0..(Len(healthyServers) - 1)

\* Math.random() * totalWeight is drawn by updateWeightedDNS only; the draws
\* are the integers of [0, totalWeight).
randomSamples(alg, healthyServers) ==
    IF alg = "weighted" THEN 0..Max(0, SumWeights(healthyServers) - 1) ELSE {0}

\* The switch of updateDNSRecords; nowSec = floor(Date.now() / 1000),
\* random = Math.random() * totalWeight.
selectServer(alg, healthyServers, h, nowSec, random) ==
    IF alg = "round-robin" THEN updateRoundRobinDNS(healthyServers, nowSec)
    ELSE IF alg = "weighted" THEN updateWeightedDNS(healthyServers, random)
    ELSE IF alg = "health-based" THEN updateHealthBasedDNS(healthyServers, h)
    ELSE updateRoundRobinDNS(healthyServers, nowSec)

----------------------------------------------------------------------------
(* DNS records and the record written by createOrUpdateDNSRecord *)

\* `${loadBalancer.name}.${loadBalancer.domain.name}`
lbRecordName == lbName \o <<".">> \o domainName(lbDomain)

\* prisma.dNSRecord.findFirst({ domainId, name, type: 'A' }): index of the row, 0 when none.
findFirstRecord(recs, name, type) ==
    IF \E i \in 1..Len(recs) : recs[i].name = name /\ recs[i].type = type
    THEN CHOOSE i \in 1..Len(recs) :
            /\ recs[i].name = name /\ recs[i].type = type
            /\ \A j \in 1..(i - 1) : ~(recs[j].name = name /\ recs[j].type = type)
    ELSE 0

LbTtl == 60

\* The row prisma.dNSRecord.create inserts: isLoadBalanced is not set and
\* keeps its column default, false.
newLbRecord(ip) ==
    [ name |-> lbRecordName, type |-> "A", value |-> ip, ttl |-> LbTtl,
      priority |-> 0, weight |-> 0, port |-> 0, isLoadBalanced |-> FALSE ]

\* Records the domain holds before any cycle: created through the record forms.
StaticRecords ==
    << [ name |-> <<"a", ".", "d", ".", "c">>, type |-> "A", value |-> <<"10.0.0.9">>,
         ttl |-> 300, priority |-> 0, weight |-> 0, port |-> 0, isLoadBalanced |-> FALSE ],
       [ name |-> <<"m">>, type |-> "CNAME", value |-> <<"a">>,
         ttl |-> 300, priority |-> 0, weight |-> 0, port |-> 0, isLoadBalanced |-> FALSE ] >>

\* The rows of table DNSRecord at the start: those of the balancer's domain;
\* the other domain has none.
InitialRecords(d) == IF d = lbDomain THEN StaticRecords ELSE <<>>

----------------------------------------------------------------------------
(* Zone synthesis: createZoneFile.  A zone is a sequence of lines; a line  *)
(* is [name, type, data], data being the fields after the type.            *)

Line(name, type, data) == [name |-> name, type |-> type, data |-> data]

\* The template the zone text starts with: SOA, NS, apex A, ns1 A.
Preamble(d) ==
    << Line(<<"@">>, "SOA", <<domainName(d) \o <<".">>>>),
       Line(<<"@">>, "NS", <<<<"n", "s", "1", ".">> \o domainName(d) \o <<".">>>>),
       Line(<<"@">>, "A", <<<<"127.0.0.1">>>>),
       Line(<<"n", "s", "1">>, "A", <<<<"127.0.0.1">>>>) >>

dotDomain(d) == <<".">> \o domainName(d)

\* The record-name chain of createZoneFile; Skip when the record is dropped.
Skip == <<"skip">>
zoneRecordName(name, d) ==
    IF name = domainName(d) THEN <<"@">>
    ELSE IF endsWith(name, dotDomain(d)) THEN replace(name, dotDomain(d), <<>>)
    ELSE IF includes(name, dotDomain(d)) THEN replace(name, dotDomain(d), <<>>)
    ELSE IF includes(name, <<".">>) /\ ~endsWith(name, domainName(d)) THEN Skip
    ELSE name

\* The CNAME branch: strip `.domain` when the target ends with it, then
\* append `.domain.` unless the target ends with a dot.
cnameTarget(value, d) ==
    LET stripped == IF endsWith(value, dotDomain(d))
                    THEN replace(value, dotDomain(d), <<>>) ELSE value
    IN  IF ~endsWith(stripped, <<".">>)
        THEN stripped \o <<".">> \o domainName(d) \o <<".">>
        ELSE stripped

\* `${x ? ' ' + x : ''}` for priority, weight, port: present when truthy.
optField(x) == IF x # 0 THEN <<x>> ELSE <<>>

DefaultMxPriority == 10

\* The lines one stored record contributes (none when skipped).
staticLines(r, d) ==
    IF r.isLoadBalanced THEN <<>>
    ELSE LET n == zoneRecordName(r.name, d)
         IN  IF n = Skip THEN <<>>
             ELSE IF r.type = "MX"
             THEN << Line(n, "MX", <<IF r.priority # 0 THEN r.priority ELSE DefaultMxPriority,
                                     r.value>>) >>
             ELSE IF r.type = "CNAME"
             THEN << Line(n, "CNAME", <<cnameTarget(r.value, d)>>) >>
             ELSE << Line(n, r.type,
                          optField(r.priority) \o optField(r.weight) \o optField(r.port)
                              \o <<r.value>>) >>

RECURSIVE staticSection(_, _)
staticSection(recs, d) ==
    IF recs = <<>> THEN <<>>
    ELSE staticLines(Head(recs), d) \o staticSection(Tail(recs), d)

\* lb.servers.filter(server => server.isActive && server.health && status === 'healthy')
zoneHealthyServers(servers, h) ==
    SelectSeq(servers, LAMBDA s : serverIsActive(s) /\ h[s] # NoHealth
                                  /\ h[s].status = "healthy")

ALine(ip) == Line(lbName, "A", <<ip>>)

RECURSIVE repeatLine(_, _)
repeatLine(l, n) == IF n <= 0 THEN <<>> ELSE <<l>> \o repeatLine(l, n - 1)

WeightDivisor == 10

RECURSIVE weightedLines(_)
weightedLines(servers) ==
    IF servers = <<>> THEN <<>>
    ELSE repeatLine(ALine(serverIp(Head(servers))), serverWeight(Head(servers)) \div WeightDivisor)
         \o weightedLines(Tail(servers))

\* Array.prototype.sort by (a.responseTime || 0) - (b.responseTime || 0): stable.
RECURSIVE insertByResponseTime(_, _, _)
insertByResponseTime(s, sorted, h) ==
    IF sorted = <<>> THEN <<s>>
    ELSE IF h[s].responseTime < h[Head(sorted)].responseTime
         THEN <<s>> \o sorted
         ELSE <<Head(sorted)>> \o insertByResponseTime(s, Tail(sorted), h)

RECURSIVE sortByResponseTime(_, _)
sortByResponseTime(servers, h) ==
    IF servers = <<>> THEN <<>>
    ELSE insertByResponseTime(servers[Len(servers)],
                              sortByResponseTime(SubSeq(servers, 1, Len(servers) - 1), h), h)

TopServers == 3

RECURSIVE aLines(_)
aLines(servers) ==
    IF servers = <<>> THEN <<>>
    ELSE <<ALine(serverIp(Head(servers)))>> \o aLines(Tail(servers))

srvName(d) == <<"_">> \o lbName \o <<".", "_", "t", "c", "p", ".">> \o domainName(d) \o <<".">>

SrvWeightTotal == 100

RECURSIVE srvLines(_, _, _)
srvLines(servers, n, d) ==
    IF servers = <<>> THEN <<>>
    ELSE << Line(srvName(d), "SRV",
                 <<0, SrvWeightTotal \div n, serverPort(Head(servers)), serverIp(Head(servers))>>) >>
         \o srvLines(Tail(servers), n, d)

\* The balancer section of createZoneFile for a balancer with algorithm alg,
\* server list servers and health rows h.  `sort` sorts healthyServers in place, so the SRV lines
\* of a health-based balancer follow the sorted order.
lbSection(d, alg, servers, h) ==
    IF ~(lbIsActive /\ domainName(lbDomain) = domainName(d) /\ Len(servers) > 0) THEN <<>>
    ELSE LET healthyServers == zoneHealthyServers(servers, h)
             ordered == IF alg = "health-based"
                        THEN sortByResponseTime(healthyServers, h) ELSE healthyServers
         IN  IF Len(healthyServers) = 0 THEN <<>>
             ELSE (IF alg = "round-robin" THEN aLines(healthyServers)
                   ELSE IF alg = "weighted" THEN weightedLines(healthyServers)
                   ELSE IF alg = "health-based"
                        THEN aLines(SubSeq(ordered, 1, Min(TopServers, Len(ordered))))
                   ELSE <<>>)
                  \o (IF Len(healthyServers) > 1
                      THEN srvLines(ordered, Len(ordered), d) ELSE <<>>)

\* The zone text createZoneFile writes for domain d from the loaded rows.
createZoneFile(d, recs, alg, servers, h) ==
    Preamble(d) \o staticSection(recs, d) \o lbSection(d, alg, servers, h)

----------------------------------------------------------------------------
(* State of a run of performHealthChecks (started by startHealthChecks or  *)
(* by the interval timer) or of the update-dns route, which runs the same  *)
(* steps for the balancer it loads.                                        *)

CycleIds == 1..MaxCycles

NoSnapshot == [s \in ServerIds |-> NoHealth]
NoEvaluation == [s \in ServerIds |-> "none"]

IdleCycle ==
    [ pc |-> "idle", owner |-> "none", servers |-> <<>>, snap |-> NoSnapshot, idx |-> 0,
      evald |-> NoEvaluation, sel |-> NoServer, selEvald |-> "none", existing |-> 0 ]

\* A run that has just issued its first query (findMany / findUnique).
NewCycle(owner) == [IdleCycle EXCEPT !.pc = "load", !.owner = owner]

\* A run that has ended keeps nothing the model reads.
DoneCycle == [IdleCycle EXCEPT !.pc = "done"]

\* What is left of a run when the process exits: nothing of it goes on.
GoneCycle == [IdleCycle EXCEPT !.pc = "gone"]

Scheduled(c) == cycles[c].owner \in {"start", "timer"}
InProgress(c) == cycles[c].pc \in {"load", "probe", "select", "write"}

\* Runs of performHealthChecks, of the route and of syncBind9 in progress.
Activities ==
    Cardinality({c \in CycleIds : InProgress(c)}) + (IF sync.pc # "idle" THEN 1 ELSE 0)

\* A new run may begin: the model follows MaxCycles runs, and MaxConcurrent
\* activities at once.
CanBegin ==
    /\ nextCycle <= MaxCycles
    /\ Activities < MaxConcurrent

\* What a reloadBind9 leaves behind when `rndc reload` fails: who ran it,
\* whether `service named restart` was run and how it went, and whether the
\* call threw to its caller.
NoReloadError == [failed |-> FALSE, by |-> "none", restart |-> "none", thrown |-> FALSE]

\* The files a run of syncBind9 found on disk when it began.
NoFiles == [zoneFiles |-> [d \in DomainIds |-> NoFile], namedConf |-> {}]

\* No delete-server request has been made.
NoRemoval == [pc |-> "idle", server |-> NoServer, status |-> 0, cause |-> "none"]

IdleSync ==
    [ pc |-> "idle", recs |-> [d \in DomainIds |-> <<>>], h |-> NoSnapshot, i |-> 0,
      result |-> "none", zoneContent |-> <<>>, before |-> NoFiles ]

InitState(servers) ==
    /\ isRunning = FALSE
    /\ healthCheckInterval = NoTimer
    /\ timers = {}
    /\ exited = FALSE
    /\ cycles = [c \in CycleIds |-> IdleCycle]
    /\ nextCycle = 1
    /\ health = <<>>
    /\ records = [d \in DomainIds |-> InitialRecords(d)]
    /\ sync = IdleSync
    /\ syncRuns = 0
    /\ zoneFiles = [d \in DomainIds |-> NoFile]
    /\ namedConf = {}
    /\ algorithm \in Algorithms
    /\ lbServers = servers
    /\ stopped = FALSE
    /\ evalIn = NoInput
    /\ evalOut = NoHealth
    /\ lastReload = NoReloadError
    /\ removal = NoRemoval

\* The pipeline's balancer: one server, probed by ping and by HTTP.
Init == InitState(Servers)

----------------------------------------------------------------------------
(* The scheduler: startHealthChecks, stopHealthChecks, the interval timer  *)

\* `if (this.isRunning) return;`
startIsNoOpNever(running) == FALSE

startIsNoOp(running) == running

\* What the try / catch of performHealthChecks makes of a run in which a
\* step threw: the error is logged and the promise resolves.
cycleOutcomeRethrow(thrown) == IF thrown THEN "rejected" ELSE "resolved"

cycleOutcome(thrown) == "resolved"

\* startHealthChecks up to its first await: a call made while isRunning
\* returns at once.
startHealthChecks ==
    /\ ~exited
    /\ IF startIsNoOp(isRunning)
       THEN UNCHANGED <<isRunning, cycles, nextCycle>>
       ELSE /\ CanBegin
            /\ isRunning' = TRUE
            /\ cycles' = [cycles EXCEPT ![nextCycle] = NewCycle("start")]
            /\ nextCycle' = nextCycle + 1
    /\ UNCHANGED <<healthCheckInterval, timers, exited, health, records, sync,
                   syncRuns, zoneFiles, namedConf, algorithm, lbServers, stopped,
                   evalIn, evalOut, lastReload,
                   removal>>

\* The body of stopHealthChecks.
stopEffect ==
    /\ timers' = IF healthCheckInterval # NoTimer THEN timers \ {healthCheckInterval} ELSE timers
    /\ healthCheckInterval' = NoTimer
    /\ isRunning' = FALSE
    /\ stopped' = TRUE

stopHealthChecks ==
    /\ ~exited
    /\ stopEffect
    /\ UNCHANGED <<exited, cycles, nextCycle, health, records, sync, syncRuns,
                   zoneFiles, namedConf, algorithm, lbServers, evalIn, evalOut, lastReload,
                   removal>>

\* The SIGTERM / SIGINT handler: stopHealthChecks, then process.exit(0), with
\* which the event loop, its timers and the runs in progress are gone.
Shutdown ==
    /\ ~exited
    /\ isRunning' = FALSE
    /\ healthCheckInterval' = NoTimer
    /\ stopped' = TRUE
    /\ exited' = TRUE
    /\ timers' = {}
    /\ cycles' = [c \in CycleIds |-> GoneCycle]
    /\ nextCycle' = MaxCycles + 1
    /\ UNCHANGED <<health, records, sync, syncRuns,
                   zoneFiles, namedConf, algorithm, lbServers, evalIn, evalOut, lastReload,
                   removal>>

\* An armed interval timer fires: its callback calls performHealthChecks.
Tick ==
    /\ ~exited
    /\ CanBegin
    /\ timers # {}
    /\ cycles' = [cycles EXCEPT ![nextCycle] = NewCycle("timer")]
    /\ nextCycle' = nextCycle + 1
    /\ UNCHANGED <<isRunning, healthCheckInterval, timers, exited, health, records,
                   sync, syncRuns, zoneFiles, namedConf, algorithm, lbServers, stopped,
                   evalIn, evalOut, lastReload,
                   removal>>

\* POST /:id/update-dns: loads the balancer, then runs the steps of a cycle.
UpdateDnsRoute ==
    /\ ~exited
    /\ CanBegin
    /\ cycles' = [cycles EXCEPT ![nextCycle] = NewCycle("manual")]
    /\ nextCycle' = nextCycle + 1
    /\ UNCHANGED <<isRunning, healthCheckInterval, timers, exited, health, records,
                   sync, syncRuns, zoneFiles, namedConf, algorithm, lbServers, stopped,
                   evalIn, evalOut, lastReload,
                   removal>>

\* POST /:id/health-check: loads the balancer, probes its servers and stores
\* the results; it does not go on to updateDNSRecords.
HealthCheckRoute ==
    /\ ~exited
    /\ CanBegin
    /\ cycles' = [cycles EXCEPT ![nextCycle] = NewCycle("check")]
    /\ nextCycle' = nextCycle + 1
    /\ UNCHANGED <<isRunning, healthCheckInterval, timers, exited, health, records,
                   sync, syncRuns, zoneFiles, namedConf, algorithm, lbServers, stopped,
                   evalIn, evalOut, lastReload,
                   removal>>

\* The end of run c.  A run awaited by startHealthChecks is followed by
\* setInterval; a rejected run skips it, and rejects the timer callback.
\* `thrown`: an error reached the try of performHealthChecks (or of the route).
Finish(c, thrown) ==
    LET outcome == cycleOutcome(thrown)
        owner == cycles[c].owner
    IN  /\ cycles' = [cycles EXCEPT ![c] = DoneCycle]
        /\ IF owner = "start" /\ outcome = "resolved"
           THEN /\ healthCheckInterval' = c
                /\ timers' = timers \cup {c}
           ELSE UNCHANGED <<healthCheckInterval, timers>>
        /\ exited' = (exited \/ (owner = "timer" /\ outcome = "rejected"))

----------------------------------------------------------------------------
(* The steps of a run, one per await *)

schedulerUnchanged ==
    UNCHANGED <<isRunning, stopped, algorithm, evalIn, evalOut, removal>>
syncUnchanged == UNCHANGED <<sync, syncRuns, zoneFiles, namedConf>>

\* The first query returns: findMany({ where: { isActive: true } }) of
\* performHealthChecks, findUnique of the route.  A failure ends the run in
\* the catch clause.
Load(c) ==
    /\ ~exited
    /\ cycles[c].pc = "load"
    /\ \E ok \in BOOLEAN :
          IF ok /\ lbIsActive
          THEN IF Len(lbServers) = 0 /\ cycles[c].owner = "check"
               THEN Finish(c, FALSE)
               ELSE /\ cycles' = [cycles EXCEPT
                         ![c].pc = IF Len(lbServers) = 0 THEN "select" ELSE "probe",
                         ![c].servers = lbServers,
                         ![c].snap = loadHealth(health),
                         ![c].idx = 1]
                    /\ UNCHANGED <<healthCheckInterval, timers, exited>>
          ELSE Finish(c, ~ok)
    /\ schedulerUnchanged /\ syncUnchanged
    /\ UNCHANGED <<nextCycle, health, records, lastReload, lbServers>>

updateServerHealthRethrows(dbOk) == ~dbOk

\* updateServerHealth wraps the upsert in try/catch: a failed upsert is logged,
\* nothing is thrown to performHealthChecks.
updateServerHealthThrows(dbOk) == FALSE

\* checkServerHealth and updateServerHealth for the next server of the list:
\* the probes touch no shared state, the upsert is one statement.  A failed
\* upsert (dbOk false, or a create the unique index rejects) is logged by
\* updateServerHealth and the loop goes on.  After the last server the
\* health-check route responds; the other runs go on to updateDNSRecords.
Probe(c) ==
    /\ ~exited
    /\ cycles[c].pc = "probe"
    /\ LET s == cycles[c].servers[cycles[c].idx]
           outcomes == { checkServerHealth(serverPort(s), pingOk, pingElapsed,
                                           httpOk, httpElapsed, metrics) :
                            pingOk \in BOOLEAN, httpOk \in BOOLEAN,
                            pingElapsed \in ElapsedSamples, httpElapsed \in ElapsedSamples,
                            metrics \in MetricsSamples }
           stores == { << healthStatus.status,
                          IF dbOk /\ ~healthFkRejects(lbServers, s)
                          THEN upsertHealth(health, s, healthStatus, found)
                          ELSE health,
                          updateServerHealthThrows(dbOk) >> :
                          healthStatus \in outcomes, dbOk \in BOOLEAN,
                          found \in {hasHealthRow(health, s), FALSE} }
       IN  \E st \in stores :
              /\ health' = st[2]
              /\ IF st[3] THEN Finish(c, TRUE)
                 ELSE IF cycles[c].idx = Len(cycles[c].servers) /\ cycles[c].owner = "check"
                 THEN Finish(c, FALSE)
                 ELSE /\ cycles' = [cycles EXCEPT
                           ![c].evald[s] = st[1],
                           ![c].idx = @ + 1,
                           ![c].pc = IF cycles[c].idx = Len(cycles[c].servers)
                                     THEN "select" ELSE "probe"]
                      /\ UNCHANGED <<healthCheckInterval, timers, exited>>
    /\ schedulerUnchanged /\ syncUnchanged
    /\ UNCHANGED <<nextCycle, records, lastReload, lbServers>>

\* reloadBind9 of the service: `rndc reload`; a failure is logged, nothing
\* else is run and nothing is thrown.
serviceReloadBind9(reloadOk) ==
    IF reloadOk THEN NoReloadError
    ELSE [failed |-> TRUE, by |-> "cycle", restart |-> "none", thrown |-> FALSE]

\* updateDNSRecords up to the findFirst of createOrUpdateDNSRecord: filter the
\* loaded servers, pick one by the algorithm, look the record up.  With no
\* healthy server the run returns at once.  A failed findFirst is logged by
\* createOrUpdateDNSRecord, and the run goes on to `rndc reload`, whose
\* outcome changes nothing in the service.
Select(c) ==
    /\ ~exited
    /\ cycles[c].pc = "select"
    /\ LET healthyServers == healthyServersOf(cycles[c].servers, cycles[c].snap)
       IN  IF Len(healthyServers) = 0
           THEN Finish(c, FALSE) /\ UNCHANGED lastReload
           ELSE \E selected \in { selectServer(algorithm, healthyServers, cycles[c].snap,
                                                 nowSec, random) :
                                       nowSec \in nowSamples(algorithm, healthyServers),
                                       random \in randomSamples(algorithm, healthyServers) },
                   ok \in BOOLEAN :
                       IF ok
                       THEN /\ cycles' = [cycles EXCEPT
                                 ![c].sel = selected,
                                 ![c].selEvald = cycles[c].evald[selected],
                                 ![c].existing = findFirstRecord(records[lbDomain],
                                                                 lbRecordName, "A"),
                                 ![c].servers = <<>>,
                                 ![c].snap = NoSnapshot,
                                 ![c].evald = NoEvaluation,
                                 ![c].idx = 0,
                                 ![c].pc = "write"]
                            /\ UNCHANGED <<healthCheckInterval, timers, exited, lastReload>>
                       ELSE \E reloadOk \in BOOLEAN :
                               /\ lastReload' = serviceReloadBind9(reloadOk)
                               /\ Finish(c, FALSE)
    /\ schedulerUnchanged /\ syncUnchanged
    /\ UNCHANGED <<nextCycle, health, records, lbServers>>

\* createOrUpdateDNSRecord after findFirst: update the row found, else create one.
createOrUpdateDNSRecord(recs, existing, ip) ==
    IF existing # 0
    THEN [recs EXCEPT ![existing].value = ip, ![existing].ttl = LbTtl]
    ELSE Append(recs, newLbRecord(ip))

\* The update or create of createOrUpdateDNSRecord, then the service's
\* reloadBind9: a failure of either is logged and the run ends normally.
Write(c) ==
    /\ ~exited
    /\ cycles[c].pc = "write"
    /\ \E ok \in BOOLEAN, reloadOk \in BOOLEAN :
          /\ records' = IF ok
                        THEN [records EXCEPT ![lbDomain] =
                                 createOrUpdateDNSRecord(@, cycles[c].existing,
                                                         serverIp(cycles[c].sel))]
                        ELSE records
          /\ lastReload' = serviceReloadBind9(reloadOk)
          /\ Finish(c, FALSE)
    /\ schedulerUnchanged /\ syncUnchanged
    /\ UNCHANGED <<nextCycle, health, lbServers>>

----------------------------------------------------------------------------
(* syncBind9: load the domains and the balancers, write every zone file,   *)
(* write named.conf.local, reload named.  It is called by the record and   *)
(* domain routes; any failure is rethrown to the caller.                   *)

cyclesUnchanged ==
    UNCHANGED <<isRunning, healthCheckInterval, timers, exited, cycles, nextCycle,
                health, records, algorithm, lbServers, stopped, evalIn, evalOut, removal>>

SyncEnd(result) == sync' = [IdleSync EXCEPT !.result = result]

SyncBegin ==
    /\ ~exited
    /\ sync.pc = "idle"
    /\ syncRuns < MaxSyncs
    /\ Activities < MaxConcurrent
    /\ syncRuns' = syncRuns + 1
    /\ sync' = [IdleSync EXCEPT !.pc = "loadDomains",
                                !.before = [zoneFiles |-> zoneFiles, namedConf |-> namedConf]]
    /\ cyclesUnchanged
    /\ UNCHANGED <<zoneFiles, namedConf, lastReload>>

\* prisma.domain.findMany({ include: { records: true } })
SyncLoadDomains ==
    /\ ~exited
    /\ sync.pc = "loadDomains"
    /\ \E ok \in BOOLEAN :
          IF ok THEN sync' = [sync EXCEPT !.pc = "loadBalancers", !.recs = records]
          ELSE SyncEnd("error")
    /\ cyclesUnchanged
    /\ UNCHANGED <<syncRuns, zoneFiles, namedConf, lastReload>>

\* prisma.dNSLoadBalancer.findMany with servers and health
SyncLoadBalancers ==
    /\ ~exited
    /\ sync.pc = "loadBalancers"
    /\ \E ok \in BOOLEAN :
          IF ok THEN sync' = [sync EXCEPT !.pc = "write", !.h = loadHealth(health), !.i = 1]
          ELSE SyncEnd("error")
    /\ cyclesUnchanged
    /\ UNCHANGED <<syncRuns, zoneFiles, namedConf, lastReload>>

\* createZoneFile of the next domain: build the text and call fs.writeFile,
\* which opens the file with flag 'w': the file is created or truncated, or
\* the open fails and the file is as it was.
SyncWrite ==
    /\ ~exited
    /\ sync.pc = "write"
    /\ LET d == Domains[sync.i]
           zoneContent == createZoneFile(d, sync.recs[d], algorithm, lbServers, sync.h)
       IN  \E opened \in BOOLEAN :
              IF opened
              THEN /\ zoneFiles' = [zoneFiles EXCEPT ![d] = <<>>]
                   /\ sync' = [sync EXCEPT !.pc = "writing", !.zoneContent = zoneContent]
              ELSE SyncEnd("error") /\ UNCHANGED zoneFiles
    /\ cyclesUnchanged
    /\ UNCHANGED <<syncRuns, namedConf, lastReload>>

\* The lengths at which a write that fails may stop.
PartialLengths(zoneContent) == {0, Len(zoneContent) \div 2}

\* fs.writeFile after the open: the text is written to the opened file; a
\* write that fails (disk full, I/O error) leaves what was written so far.
SyncWriteData ==
    /\ ~exited
    /\ sync.pc = "writing"
    /\ LET d == Domains[sync.i]
       IN  \E written \in PartialLengths(sync.zoneContent) \cup {Len(sync.zoneContent)} :
              /\ zoneFiles' = [zoneFiles EXCEPT ![d] = SubSeq(sync.zoneContent, 1, written)]
              /\ IF written = Len(sync.zoneContent)
                 THEN sync' = [sync EXCEPT
                         !.i = @ + 1,
                         !.zoneContent = <<>>,
                         !.pc = IF sync.i = Len(Domains) THEN "conf" ELSE "write"]
                 ELSE SyncEnd("error")
    /\ cyclesUnchanged
    /\ UNCHANGED <<syncRuns, namedConf, lastReload>>

\* updateNamedConfLocal: one zone clause per domain loaded.
SyncConf ==
    /\ ~exited
    /\ sync.pc = "conf"
    /\ \E ok \in BOOLEAN :
          IF ok
          THEN /\ namedConf' = DomainIds
               /\ sync' = [sync EXCEPT !.pc = "reload"]
          ELSE SyncEnd("error") /\ UNCHANGED namedConf
    /\ cyclesUnchanged
    /\ UNCHANGED <<syncRuns, zoneFiles, lastReload>>

\* reloadBind9 of the sync module: `rndc reload`; when it fails, `sudo service
\* named restart`; when that fails too, the error is thrown.
syncReloadBind9(reloadOk, restartOk) ==
    IF reloadOk THEN NoReloadError
    ELSE [failed |-> TRUE, by |-> "sync", restart |-> IF restartOk THEN "ok" ELSE "failed",
          thrown |-> ~restartOk]

SyncReload ==
    /\ ~exited
    /\ sync.pc = "reload"
    /\ \E reloadOk \in BOOLEAN, restartOk \in BOOLEAN :
          /\ lastReload' = syncReloadBind9(reloadOk, restartOk)
          /\ IF lastReload'.thrown THEN SyncEnd("error") ELSE SyncEnd("ok")
    /\ cyclesUnchanged
    /\ UNCHANGED <<syncRuns, zoneFiles, namedConf>>

----------------------------------------------------------------------------

(* Specifications.  The scheduler specification runs the service's public *)
(* methods, the signal handler and the timer; the pipeline specification   *)
(* runs the cycles of a started service, the update-dns route and          *)
(* syncBind9.  The route and syncBind9 neither read nor write the          *)
(* scheduler's fields.                                                     *)

CycleStep ==
    \/ \E c \in CycleIds : Load(c)
    \/ \E c \in CycleIds : Probe(c)
    \/ \E c \in CycleIds : Select(c)
    \/ \E c \in CycleIds : Write(c)

SyncStep ==
    \/ SyncBegin
    \/ SyncLoadDomains
    \/ SyncLoadBalancers
    \/ SyncWrite
    \/ SyncWriteData
    \/ SyncConf
    \/ SyncReload

\* One evaluation on its own: checkServerHealth for a drawn port and drawn
\* probe outcomes, and determineOverallStatus for a drawn pair of results.
EvalInputs ==
    [ port : Ports, pingOk : BOOLEAN, httpOk : BOOLEAN,
      pingElapsed : EvalElapsed, httpElapsed : EvalElapsed, metrics : EvalMetrics,
      pingStatus : {"healthy", "unhealthy"},
      portStatus : {"healthy", "unhealthy", "unknown"} ]

InitEval ==
    /\ isRunning = FALSE
    /\ healthCheckInterval = NoTimer
    /\ timers = {}
    /\ exited = FALSE
    /\ cycles = [c \in CycleIds |-> IdleCycle]
    /\ nextCycle = 1
    /\ health = <<>>
    /\ records = [d \in DomainIds |-> InitialRecords(d)]
    /\ sync = IdleSync
    /\ syncRuns = 0
    /\ zoneFiles = [d \in DomainIds |-> NoFile]
    /\ namedConf = {}
    /\ algorithm = "round-robin"
    /\ lbServers = Servers
    /\ stopped = FALSE
    /\ evalIn \in EvalInputs
    /\ evalOut = NoHealth
    /\ lastReload = NoReloadError
    /\ removal = NoRemoval

Evaluate ==
    /\ evalIn # NoInput
    /\ evalOut = NoHealth
    /\ evalOut' =
          [ status |-> "evaluated",
            health |-> checkServerHealth(evalIn.port, evalIn.pingOk, evalIn.pingElapsed,
                                         evalIn.httpOk, evalIn.httpElapsed, evalIn.metrics),
            portResult |-> portCheck(evalIn.port, pingTest(evalIn.pingOk, evalIn.pingElapsed),
                                     evalIn.httpOk, evalIn.httpElapsed),
            overall |-> determineOverallStatus([status |-> evalIn.pingStatus],
                                               [status |-> evalIn.portStatus]) ]
    /\ UNCHANGED <<isRunning, healthCheckInterval, timers, exited, cycles, nextCycle, health,
                   records, sync, syncRuns, zoneFiles, namedConf, algorithm, lbServers, stopped,
                   evalIn, lastReload,
                   removal>>

NextEval == Evaluate

SpecEval == InitEval /\ [][NextEval]_vars

\* The scheduler reads no field of the balancer or of its servers: one
\* balancer with the algorithm the column defaults to, and one server, on a
\* port that is probed by ping alone.
InitSched == InitState(SchedServers) /\ algorithm = "round-robin"

NextSched ==
    \/ startHealthChecks
    \/ stopHealthChecks
    \/ Shutdown
    \/ Tick
    \/ CycleStep

SpecSched == InitSched /\ [][NextSched]_vars

\* One selection on its own: the switch of updateDNSRecords applied to a drawn
\* list of healthy servers, with the clock, the random draw or the health
\* rows its algorithm reads.
ServerLists ==
    { l \in UNION { [1..n -> ServerIds] : n \in 1..MaxServers } :
         \A i \in 1..Len(l), j \in 1..Len(l) : i # j => l[i] # l[j] }

NowRange == 0..5

ScoreRows ==
    { healthRow("any", [ status |-> "healthy", responseTime |-> rt, uptime |-> m.uptime,
                         load |-> m.load, memoryUsage |-> m.memoryUsage,
                         diskUsage |-> m.diskUsage ]) :
         rt \in {10, 500}, m \in EvalMetrics }

\* Health rows of every status, with the response times a probe can store:
\* -1 (no answer), 0 (answered within the millisecond) and positive times.
StoredRows ==
    { healthRow("any", [ status |-> st, responseTime |-> rt, uptime |-> m.uptime,
                         load |-> m.load, memoryUsage |-> m.memoryUsage,
                         diskUsage |-> m.diskUsage ]) :
         st \in {"healthy", "degraded", "unhealthy"}, rt \in {0 - 1, 0, 10, 500},
         m \in EvalMetrics }

SelectInputs ==
    { [ alg |-> "score", row |-> r ] : r \in StoredRows } \cup
    { [ alg |-> "round-robin", servers |-> l, nowSec |-> t, random |-> 0, h |-> NoSnapshot ] :
         l \in ServerLists, t \in NowRange }
    \cup UNION { { [ alg |-> "weighted", servers |-> l, nowSec |-> 0, random |-> r,
                     h |-> NoSnapshot ] : r \in randomSamples("weighted", l) } :
                   l \in ServerLists }
    \cup { [ alg |-> "health-based", servers |-> l, nowSec |-> 0, random |-> 0, h |-> hs ] :
             l \in ServerLists, hs \in [ServerIds -> ScoreRows] }

InitSelect ==
    /\ isRunning = FALSE
    /\ healthCheckInterval = NoTimer
    /\ timers = {}
    /\ exited = FALSE
    /\ cycles = [c \in CycleIds |-> IdleCycle]
    /\ nextCycle = 1
    /\ health = <<>>
    /\ records = [d \in DomainIds |-> InitialRecords(d)]
    /\ sync = IdleSync
    /\ syncRuns = 0
    /\ zoneFiles = [d \in DomainIds |-> NoFile]
    /\ namedConf = {}
    /\ algorithm = "round-robin"
    /\ lbServers = Servers
    /\ stopped = FALSE
    /\ evalIn \in SelectInputs
    /\ evalOut = NoHealth
    /\ lastReload = NoReloadError
    /\ removal = NoRemoval

inputUnchanged ==
    UNCHANGED <<isRunning, healthCheckInterval, timers, exited, cycles, nextCycle, health,
                records, sync, syncRuns, zoneFiles, namedConf, algorithm, lbServers,
                stopped, evalIn, lastReload,
                   removal>>

\* calculateHealthScore of one stored row.
ScoreRow ==
    /\ evalIn.alg = "score"
    /\ evalOut = NoHealth
    /\ evalOut' = [ status |-> "scored", score |-> calculateHealthScore(evalIn.row) ]
    /\ inputUnchanged

Pick ==
    /\ evalIn.alg \in Algorithms
    /\ evalOut = NoHealth
    /\ evalOut' = [ status |-> "selected",
                    server |-> selectServer(evalIn.alg, evalIn.servers, evalIn.h,
                                            evalIn.nowSec, evalIn.random) ]
    /\ UNCHANGED <<isRunning, healthCheckInterval, timers, exited, cycles, nextCycle, health,
                   records, sync, syncRuns, zoneFiles, namedConf, algorithm, lbServers,
                   stopped, evalIn, lastReload,
                   removal>>

NextSelect ==
    \/ Pick
    \/ ScoreRow

SpecSelect == InitSelect /\ [][NextSelect]_vars

\* One step of zone synthesis on its own, for a drawn stored value: the name
\* chain of a record, the target of a CNAME record, or the zone of the
\* balancer's domain for a drawn algorithm, server list and health rows.
\* Names are labels joined by dots, which gives names that end with the
\* domain's name, that contain it, and that hold it twice; and each of these
\* behind a further letter, which gives names whose last characters are the
\* domain's without a dot before them.
Labels == { <<"a">>, <<"d">>, <<"c">> }

RECURSIVE Join(_)
Join(ls) == IF Len(ls) = 1 THEN ls[1] ELSE ls[1] \o <<".">> \o Join(Tail(ls))

DottedNames == { Join(ls) : ls \in UNION { [1..n -> Labels] : n \in 1..MaxLabels } }

Names == DottedNames \cup { <<"a">> \o n : n \in DottedNames }

ZoneRows ==
    { healthRow("any", [ status |-> r[1], responseTime |-> r[2], uptime |-> 0, load |-> 0,
                         memoryUsage |-> 0, diskUsage |-> 0 ]) :
         r \in { <<"unhealthy", 0 - 1>>, <<"healthy", 10>>, <<"healthy", 500>> } }

ZoneInputs ==
    { [ kind |-> "name", name |-> n ] : n \in Names }
    \cup { [ kind |-> "cname", value |-> n \o dot ] : n \in Names, dot \in {<<>>, <<".">>} }
    \cup { [ kind |-> "lb", alg |-> alg, servers |-> l, h |-> hs ] :
             alg \in Algorithms, l \in ServerLists, hs \in [ServerIds -> ZoneRows] }

InitZone ==
    /\ isRunning = FALSE
    /\ healthCheckInterval = NoTimer
    /\ timers = {}
    /\ exited = FALSE
    /\ cycles = [c \in CycleIds |-> IdleCycle]
    /\ nextCycle = 1
    /\ health = <<>>
    /\ records = [d \in DomainIds |-> InitialRecords(d)]
    /\ sync = IdleSync
    /\ syncRuns = 0
    /\ zoneFiles = [d \in DomainIds |-> NoFile]
    /\ namedConf = {}
    /\ algorithm = "round-robin"
    /\ lbServers = Servers
    /\ stopped = FALSE
    /\ evalIn \in ZoneInputs
    /\ evalOut = NoHealth
    /\ lastReload = NoReloadError
    /\ removal = NoRemoval

\* The record-name chain of createZoneFile.
NameStep ==
    /\ evalIn.kind = "name"
    /\ evalOut = NoHealth
    /\ evalOut' = [ status |-> "name", name |-> zoneRecordName(evalIn.name, lbDomain) ]
    /\ inputUnchanged

\* The CNAME branch of createZoneFile.
CnameStep ==
    /\ evalIn.kind = "cname"
    /\ evalOut = NoHealth
    /\ evalOut' = [ status |-> "cname", target |-> cnameTarget(evalIn.value, lbDomain) ]
    /\ inputUnchanged

\* The two switches on the balancer's algorithm: the selection of
\* updateDNSRecords and the zone text of createZoneFile.
LbStep ==
    /\ evalIn.kind = "lb"
    /\ evalOut = NoHealth
    /\ LET healthyServers == healthyServersOf(evalIn.servers, evalIn.h)
       IN  evalOut' =
              [ status |-> "lb",
                selected |-> IF Len(healthyServers) = 0 THEN NoServer
                             ELSE selectServer(evalIn.alg, healthyServers, evalIn.h, 1, 0),
                zone |-> createZoneFile(lbDomain, InitialRecords(lbDomain), evalIn.alg,
                                        evalIn.servers, evalIn.h) ]
    /\ inputUnchanged

NextZone ==
    \/ NameStep
    \/ CnameStep
    \/ LbStep

SpecZone == InitZone /\ [][NextZone]_vars

\* DELETE /:id/servers/:serverId: deleteMany of the server's health rows,
\* then delete of the server row, which DNSServerHealth_serverId_fkey
\* (ON DELETE RESTRICT) rejects while a health row refers to the server.  Any
\* error is answered with status 500.
removalUnchanged ==
    UNCHANGED <<isRunning, healthCheckInterval, timers, exited, cycles, nextCycle, records,
                sync, syncRuns, zoneFiles, namedConf, algorithm, stopped, evalIn, evalOut,
                lastReload>>

serverFkRestricts(table, s) == hasHealthRow(table, s)

DeleteHealthRows ==
    /\ ~exited
    /\ removal.pc = "idle"
    /\ \E i \in 1..Len(lbServers), ok \in BOOLEAN :
          IF ok
          THEN /\ health' = SelectSeq(health, LAMBDA r : r.serverId # lbServers[i])
               /\ removal' = [NoRemoval EXCEPT !.pc = "server", !.server = lbServers[i]]
          ELSE /\ removal' = [pc |-> "done", server |-> lbServers[i], status |-> 500,
                              cause |-> "database"]
               /\ UNCHANGED health
    /\ UNCHANGED lbServers
    /\ removalUnchanged

DeleteServerRow ==
    /\ ~exited
    /\ removal.pc = "server"
    /\ \E ok \in BOOLEAN :
          IF serverFkRestricts(health, removal.server)
          THEN /\ removal' = [removal EXCEPT !.pc = "done", !.status = 500,
                                             !.cause = "constraint"]
               /\ UNCHANGED lbServers
          ELSE IF ok
          THEN /\ lbServers' = SelectSeq(lbServers, LAMBDA x : x # removal.server)
               /\ removal' = [removal EXCEPT !.pc = "done", !.status = 204]
          ELSE /\ removal' = [removal EXCEPT !.pc = "done", !.status = 500,
                                             !.cause = "database"]
               /\ UNCHANGED lbServers
    /\ UNCHANGED health
    /\ removalUnchanged

\* The delete-server request beside the cycles and the manual health check.
NextDelete ==
    \/ startHealthChecks
    \/ Tick
    \/ HealthCheckRoute
    \/ CycleStep
    \/ DeleteHealthRows
    \/ DeleteServerRow

SpecDelete == InitSched /\ [][NextDelete]_vars

\* The selections of successive periodic cycles of a round-robin balancer
\* whose healthy servers stay the same: the timer fires every 30 seconds, and
\* each cycle reads the clock when it reaches updateRoundRobinDNS, after its
\* probes.  The clock is kept modulo two periods, a multiple of every list
\* length of the model.
Period == 30
ClockWrap == 2 * Period
ProbeDelays == {0, 1}

PeriodicInputs ==
    { [ alg |-> "periodic", servers |-> l, nowSec |-> t ] :
         l \in ServerLists, t \in 0..(ClockWrap - 1) }

InitPeriodic ==
    /\ isRunning = FALSE
    /\ healthCheckInterval = NoTimer
    /\ timers = {}
    /\ exited = FALSE
    /\ cycles = [c \in CycleIds |-> IdleCycle]
    /\ nextCycle = 1
    /\ health = <<>>
    /\ records = [d \in DomainIds |-> InitialRecords(d)]
    /\ sync = IdleSync
    /\ syncRuns = 0
    /\ zoneFiles = [d \in DomainIds |-> NoFile]
    /\ namedConf = {}
    /\ algorithm = "round-robin"
    /\ lbServers = Servers
    /\ stopped = FALSE
    /\ evalIn \in PeriodicInputs
    /\ evalOut = NoHealth
    /\ lastReload = NoReloadError
    /\ removal = NoRemoval

PeriodicSelect ==
    /\ evalIn.alg = "periodic"
    /\ \E delay \in ProbeDelays :
          evalOut' = [ status |-> "selected",
                      server |-> updateRoundRobinDNS(evalIn.servers, evalIn.nowSec + delay) ]
    /\ evalIn' = [evalIn EXCEPT !.nowSec = (@ + Period) % ClockWrap]
    /\ UNCHANGED <<isRunning, healthCheckInterval, timers, exited, cycles, nextCycle, health,
                   records, sync, syncRuns, zoneFiles, namedConf, algorithm, lbServers,
                   stopped, lastReload,
                   removal>>

NextPeriodic == PeriodicSelect

SpecPeriodic == InitPeriodic /\ [][NextPeriodic]_vars /\ WF_vars(PeriodicSelect)

\* The health-table specification: the cycles of a started service and the
\* health-check route, which all store evaluations of the same servers.
NextHealth ==
    \/ startHealthChecks
    \/ Tick
    \/ HealthCheckRoute
    \/ CycleStep

SpecHealth == InitSched /\ [][NextHealth]_vars

\* The periodic cycles of a balancer with two servers.
PairServers == <<"s3", "s2">>

InitPair == InitState(PairServers) /\ algorithm = "health-based"

NextPair ==
    \/ startHealthChecks
    \/ Tick
    \/ CycleStep

SpecPair == InitPair /\ [][NextPair]_vars

Next ==
    \/ startHealthChecks
    \/ Tick
    \/ UpdateDnsRoute
    \/ CycleStep
    \/ SyncStep

Spec == Init /\ [][Next]_vars

----------------------------------------------------------------------------
(* Properties *)

Begins(c, owner) == cycles[c].pc = "idle" /\ cycles'[c].pc = "load" /\ cycles'[c].owner = owner
Ends(c) == InProgress(c) /\ cycles'[c].pc = "done"

TimerCyclesInProgress == {c \in CycleIds : InProgress(c) /\ cycles[c].owner = "timer"}

\* C1: no two cycles started by the interval timer are in progress at once (a
\* tick that finds a cycle still running starts no second one).
C1_NoOverlappingCycles == Cardinality(TimerCyclesInProgress) <= 1

\* C2: the server a run selects was evaluated healthy by that same run.
C2_SelectedIsHealthyThisCycle ==
    \A c \in CycleIds : cycles[c].pc = "write" => cycles[c].selEvald = "healthy"

\* The zone file syncBind9 has just written for domain d, and what it was made from.
SyncWrote == sync.pc \in {"conf", "reload"}
LinesNamed(zone, name, type) == SelectSeq(zone, LAMBDA l : l.name = name /\ l.type = type)
Emitted(zone, line) == \E i \in 1..Len(zone) : zone[i] = line

\* C3: a zone synthesized while the balancer has no healthy server holds no A
\* line under the balancer's name and no SRV line of the balancer, and holds
\* the line of every static record of the domain.
C3_NoHealthyNoBalancerLines ==
    (SyncWrote /\ Len(zoneHealthyServers(lbServers, sync.h)) = 0) =>
        /\ LinesNamed(zoneFiles[lbDomain], lbName, "A") = <<>>
        /\ LinesNamed(zoneFiles[lbDomain], srvName(lbDomain), "SRV") = <<>>
        /\ \A i \in 1..Len(StaticRecords) :
              \A j \in 1..Len(staticLines(StaticRecords[i], lbDomain)) :
                  Emitted(zoneFiles[lbDomain], staticLines(StaticRecords[i], lbDomain)[j])

\* C4: when a scheduled cycle that ran all its steps ends, every domain's zone
\* file is the zone synthesized from the domain's records and the health rows
\* of that moment.
C4_CycleRewritesZones ==
    [][\A c \in CycleIds :
          (Scheduled(c) /\ cycles[c].pc \in {"select", "write"} /\ Ends(c))
          => \A d \in DomainIds :
                zoneFiles'[d] = createZoneFile(d, records'[d], algorithm, lbServers,
                                               loadHealth(health'))]_vars

\* C5: in a synthesized zone the lines under the balancer's name are exactly
\* those computed from the currently healthy servers: none is the static line
\* of a stored record holding a selected address.
C5_BalancerLinesComputedFresh ==
    SyncWrote =>
        LinesNamed(zoneFiles[lbDomain], lbName, "A")
            = LinesNamed(lbSection(lbDomain, algorithm, lbServers, sync.h), lbName, "A")

StartCyclesInProgress == {c \in CycleIds : InProgress(c) /\ cycles[c].owner = "start"}

\* C6: as long as stopHealthChecks was never called, at most one interval
\* timer is armed, and exactly one (the one healthCheckInterval holds) once
\* the first cycle of the running service has ended; a call of
\* startHealthChecks begins a cycle only while the service is not running;
\* and stopHealthChecks on a service never started leaves isRunning,
\* healthCheckInterval, the timers and the runs as they were.
C6_OneTimerInv ==
    ~stopped =>
        /\ Cardinality(timers) <= 1
        /\ Cardinality(StartCyclesInProgress) <= 1
        /\ (isRunning /\ StartCyclesInProgress = {}) =>
              (Cardinality(timers) = 1 /\ healthCheckInterval \in timers)

C6_StartStopAct ==
    /\ \A c \in CycleIds : Begins(c, "start") => ~isRunning
    /\ (nextCycle = 1 /\ ~isRunning /\ ~stopped /\ stopped' /\ ~exited') =>
          UNCHANGED <<isRunning, healthCheckInterval, timers, cycles, nextCycle, exited>>

C6_IdempotentStartSafeStop == [](C6_OneTimerInv) /\ [][C6_StartStopAct]_vars

\* C6 witness: the service was started, never stopped, its first cycle has
\* ended and one timer is armed (any further start is the no-op branch).
C6_Witness ==
    /\ isRunning /\ ~stopped /\ nextCycle > 1 /\ StartCyclesInProgress = {}
    /\ Cardinality(timers) = 1

\* C7: the interval timer begins a cycle only while the service is running
\* (after stopHealthChecks no cycle begins until startHealthChecks is called).
C7_NoCycleAfterStop ==
    [][\A c \in CycleIds : Begins(c, "timer") => isRunning]_vars

\* C8: the end of a scheduled cycle, whatever failed in it, leaves the
\* scheduler running: isRunning is unchanged, no timer is disarmed, the
\* process lives, and a cycle awaited by startHealthChecks arms its timer.
C8_ErrorKeepsSchedulerRunning ==
    [][\A c \in CycleIds :
          (Scheduled(c) /\ Ends(c)) =>
              /\ isRunning' = isRunning
              /\ timers \subseteq timers'
              /\ exited' = exited
              /\ (cycles[c].owner = "start" =>
                     (healthCheckInterval' = c /\ c \in timers'))
              /\ (cycles[c].owner = "timer" => healthCheckInterval' = healthCheckInterval)]_vars

\* C8 witness: a cycle begun by the timer has had a failing step (it has
\* evaluated the server and its health upsert threw: no row was written) and
\* goes on, with the timer still armed.
C8_Witness ==
    \E c \in CycleIds :
        /\ cycles[c].owner = "timer" /\ cycles[c].pc = "select"
        /\ cycles[c].evald[lbServers[1]] # "none" /\ ~hasHealthRow(health, lbServers[1])
        /\ isRunning /\ healthCheckInterval \in timers

\* What the claimed policy yields for a ping result and a port-probe result.
PolicyStatus(pingReachable, portReachable, portInapplicable) ==
    IF pingReachable /\ (portReachable \/ portInapplicable) THEN "healthy"
    ELSE IF pingReachable # portReachable THEN "degraded"
    ELSE "unhealthy"

\* C9: for every pair of ping result and port-probe result the status is
\* healthy when ping is reachable and the port probe is reachable or
\* inapplicable, degraded when exactly one is reachable, unhealthy when
\* neither is; an evaluation reports the status of its two probe results.
C9_StatusPolicy ==
    evalOut # NoHealth =>
        /\ evalOut.overall = PolicyStatus(evalIn.pingStatus = "healthy",
                                          evalIn.portStatus = "healthy",
                                          evalIn.portStatus = "unknown")
        /\ evalOut.health.status = PolicyStatus(evalIn.pingOk,
                                                evalOut.portResult.status = "healthy",
                                                evalOut.portResult.status = "unknown")

\* C9 witness: ping failed and the port probe succeeded: degraded.
C9_Witness ==
    /\ evalOut # NoHealth
    /\ evalIn.pingStatus = "unhealthy" /\ evalIn.portStatus = "healthy"
    /\ evalOut.overall = "degraded"
    /\ ~evalIn.pingOk /\ evalIn.httpOk /\ evalIn.port = 443
    /\ evalOut.health.status = "degraded"

\* C10: an evaluation of an unreachable server (ping fails, and so does the
\* HTTP request where one is made) is unhealthy with response time -1,
\* whatever the port.
C10_UnreachableIsUnhealthy ==
    (evalOut # NoHealth /\ ~evalIn.pingOk /\ ~evalIn.httpOk) =>
        (evalOut.health.status = "unhealthy" /\ evalOut.health.responseTime = -1)

\* The number of rows of the health table that belong to server s.
healthRowCount(table, s) == Cardinality({i \in 1..Len(table) : table[i].serverId = s})

\* C11: every server has at most one health row; a row appears only in a step
\* that evaluates its server, and no step removes a row or puts a row of
\* another server in its place (a later evaluation overwrites the same row).
C11_OneRowInv == \A s \in ServerIds : healthRowCount(health, s) <= 1

C11_RowAct ==
    /\ Len(health') >= Len(health)
    /\ \A i \in 1..Len(health) : health'[i].serverId = health[i].serverId
    /\ \A s \in ServerIds :
          (~hasHealthRow(health, s) /\ hasHealthRow(health', s)) =>
              \E c \in CycleIds :
                  /\ cycles[c].pc = "probe" /\ lbServers[cycles[c].idx] = s
                  /\ cycles'[c] # cycles[c]

C11_OneHealthRowPerServer == [](C11_OneRowInv) /\ [][C11_RowAct]_vars

\* C11 witness: a run loaded the server's row, evaluated the server to another
\* status and stored it: the table still holds one row, with the new status.
C11_Witness ==
    \E c \in CycleIds :
        LET s == lbServers[1]
        IN  /\ cycles[c].pc = "select"
            /\ cycles[c].snap[s] # NoHealth
            /\ cycles[c].evald[s] # cycles[c].snap[s].status
            /\ Len(health) = 1 /\ health[1].serverId = s
            /\ health[1].status = cycles[c].evald[s]


\* ---------------------------------------------------------------------------
\* Selection
\* ---------------------------------------------------------------------------
Picked(alg) == evalOut # NoHealth /\ evalIn.alg = alg

PickAt(l, t) == selectServer("round-robin", l, NoSnapshot, t, 0)

\* C12: round-robin selects the server at index (whole seconds of the clock)
\* mod N of the healthy list, so N selections taken one second apart select
\* every healthy server.
C12_RoundRobinByClock ==
    Picked("round-robin") =>
        LET l == evalIn.servers
            N == Len(l)
            t == evalIn.nowSec
        IN  /\ evalOut.server = l[(t % N) + 1]
            /\ \A i \in 1..N : \E k \in 0..(N - 1) : PickAt(l, t + k) = l[i]

C12_Witness ==
    /\ Picked("round-robin")
    /\ Len(evalIn.servers) = 3
    /\ evalIn.nowSec = 4
    /\ evalOut.server = evalIn.servers[2]

\* The first server of the list whose cumulative weight exceeds the draw.
RECURSIVE FirstExceeding(_, _, _)
FirstExceeding(l, acc, draw) ==
    IF l = <<>> THEN NoServer
    ELSE IF acc + serverWeight(Head(l)) > draw THEN Head(l)
    ELSE FirstExceeding(Tail(l), acc + serverWeight(Head(l)), draw)

\* C13: weighted selection, for every draw in [0, total weight), selects the
\* first server whose cumulative weight exceeds the draw, and never a server
\* of weight zero.
C13_WeightedByCumulativeWeight ==
    (Picked("weighted") /\ evalIn.random < SumWeights(evalIn.servers)) =>
        /\ evalOut.server = FirstExceeding(evalIn.servers, 0, evalIn.random)
        /\ serverWeight(evalOut.server) # 0

Score(s) == calculateHealthScore(evalIn.h[s])

\* C14: health-based selection selects a server of maximal composite score,
\* and among servers of equal maximal score the first in list order.
C14_HealthBasedMaxFirst ==
    Picked("health-based") =>
        LET l == evalIn.servers
        IN  \E i \in 1..Len(l) :
               /\ evalOut.server = l[i]
               /\ \A j \in 1..Len(l) : Score(l[j]) <= Score(l[i])
               /\ \A j \in 1..(i - 1) : Score(l[j]) < Score(l[i])

C14_Witness ==
    /\ Picked("health-based")
    /\ Len(evalIn.servers) = 3
    /\ Score(evalIn.servers[1]) < Score(evalIn.servers[2])
    /\ Score(evalIn.servers[2]) = Score(evalIn.servers[3])
    /\ evalOut.server = evalIn.servers[2]


\* ---------------------------------------------------------------------------
\* Balancer lines of a synthesized zone
\* ---------------------------------------------------------------------------
\* C15: for an active round-robin balancer with healthy servers, the A lines
\* under the balancer's name in the zone written for its domain are exactly
\* one line per healthy server, in server-list order, also after cycles have
\* run for the balancer.
C15_RoundRobinOneLinePerHealthy ==
    (SyncWrote /\ lbIsActive /\ algorithm = "round-robin"
       /\ Len(zoneHealthyServers(lbServers, sync.h)) > 0) =>
        LinesNamed(zoneFiles[lbDomain], lbName, "A")
            = aLines(zoneHealthyServers(lbServers, sync.h))

LinesOfServer(zone, s) ==
    SelectSeq(LinesNamed(zone, lbName, "A"), LAMBDA l : l.data = <<serverIp(s)>>)

\* C16: for an active weighted balancer, the zone written for its domain holds
\* for each healthy server exactly floor(weight / 10) A lines under the
\* balancer's name that carry the server's address.
C16_WeightedLinesPerServer ==
    (SyncWrote /\ lbIsActive /\ algorithm = "weighted") =>
        LET healthyServers == zoneHealthyServers(lbServers, sync.h)
        IN  \A i \in 1..Len(healthyServers) :
               Len(LinesOfServer(zoneFiles[lbDomain], healthyServers[i]))
                   = serverWeight(healthyServers[i]) \div 10


\* ---------------------------------------------------------------------------
\* Commit: zone files, named.conf.local, reload
\* ---------------------------------------------------------------------------
\* The texts a synthesis of domain d can produce: from the domain's rows
\* followed by the A records the runs have stored for the balancer (each run
\* stores at most one), for every set of healthy servers.
LbRecordRuns ==
    UNION { [1..k -> {lbServers[i] : i \in 1..Len(lbServers)}] : k \in 0..MaxCycles }

RecordStates(d) ==
    IF d = lbDomain
    THEN { StaticRecords \o [i \in 1..Len(f) |-> newLbRecord(serverIp(f[i]))] :
              f \in LbRecordRuns }
    ELSE {InitialRecords(d)}

HealthStates ==
    { [s \in ServerIds |-> IF s \in healthy
                           THEN [status |-> "healthy", responseTime |-> 20] ELSE NoHealth] :
         healthy \in SUBSET {lbServers[i] : i \in 1..Len(lbServers)} }

ZoneTexts(d) ==
    { createZoneFile(d, recs, algorithm, lbServers, h) :
         recs \in RecordStates(d), h \in HealthStates }

\* C17: at every moment, also while a resync runs, every zone file on disk
\* is the complete text of one synthesis of its domain, never a part of one.
C17_ZoneFilesComplete ==
    \A d \in DomainIds : zoneFiles[d] # NoFile => zoneFiles[d] \in ZoneTexts(d)

\* C18: whenever `rndc reload` fails, in a resync or in a cycle, a restart of
\* the service is attempted, and when the restart fails too the error is
\* thrown to the caller.
C18_ReloadFailureRestartsOrThrows ==
    lastReload.failed =>
        /\ lastReload.restart # "none"
        /\ (lastReload.restart = "failed" => lastReload.thrown)

SyncFails == sync.pc # "idle" /\ sync'.pc = "idle" /\ sync'.result = "error"

\* C19: when a resync fails, the zone files and named.conf.local on disk are
\* those the resync found when it began.
C19_FailedCommitLeavesFiles ==
    [][SyncFails => /\ zoneFiles' = sync.before.zoneFiles
                    /\ namedConf' = sync.before.namedConf]_vars

\* C20: a resync does not end at the write of a domain's zone: when the
\* write fails, the resync goes on with the other domains, named.conf.local
\* and the reload.
C20_ZoneFailureIsolated ==
    [][sync.pc \in {"write", "writing"} => sync'.pc # "idle"]_vars


\* ---------------------------------------------------------------------------
\* Names, CNAME targets and the algorithm switches
\* ---------------------------------------------------------------------------
Dot == <<".">>
CaseLabels == {"round-robin", "weighted", "health-based"}
Did(kind) == evalOut # NoHealth /\ evalIn.kind = kind

\* C22: every emitted CNAME target ends in a dot; a value that ends in a dot
\* is emitted unchanged, a value t.d is emitted as t.d. and a relative value
\* t as t.d. (d the domain).
C22_CnameNormalised ==
    Did("cname") =>
        LET v == evalIn.value
            suf == dotDomain(lbDomain)
        IN  /\ endsWith(evalOut.target, Dot)
            /\ endsWith(v, Dot) => evalOut.target = v
            /\ (~endsWith(v, Dot) /\ endsWith(v, suf)) => evalOut.target = v \o Dot
            /\ (~endsWith(v, Dot) /\ ~endsWith(v, suf)) => evalOut.target = v \o suf \o Dot

\* C24: a record name equal to the domain is emitted as @, a name ending in
\* .domain is emitted without that suffix, and every other dotted name is
\* skipped.
C24_RecordNames ==
    Did("name") =>
        LET n == evalIn.name
            suf == dotDomain(lbDomain)
        IN  /\ n = domainName(lbDomain) => evalOut.name = <<"@">>
            /\ (n # domainName(lbDomain) /\ endsWith(n, suf))
                  => evalOut.name = SubSeq(n, 1, Len(n) - Len(suf))
            /\ (n # domainName(lbDomain) /\ ~endsWith(n, suf) /\ includes(n, Dot))
                  => evalOut.name = Skip

\* C25: a balancer whose algorithm is none of the three known values is
\* handled as a round-robin balancer, in the selection and in the zone.
C25_UnknownAlgorithmIsRoundRobin ==
    (Did("lb") /\ evalIn.alg \notin CaseLabels) =>
        LET healthyServers == healthyServersOf(evalIn.servers, evalIn.h)
        IN  /\ Len(healthyServers) > 0
                  => evalOut.selected
                       = selectServer("round-robin", healthyServers, evalIn.h, 1, 0)
            /\ evalOut.zone = createZoneFile(lbDomain, InitialRecords(lbDomain), "round-robin",
                                             evalIn.servers, evalIn.h)

\* C30: when the active balancer has a healthy, active server of positive
\* weight, the zone of its domain holds an A line under the balancer's name,
\* whatever the algorithm.
C30_HealthyBalancerHasALine ==
    (Did("lb") /\ lbIsActive
       /\ Len(zoneHealthyServers(evalIn.servers, evalIn.h)) > 0
       /\ \A i \in 1..Len(evalIn.servers) : serverWeight(evalIn.servers[i]) > 0) =>
        LinesNamed(evalOut.zone, lbName, "A") # <<>>


\* The score as the sum of its five terms, in units of 1/3600.
ComposedScore(hr) ==
    ScoreScale * Max(0, 100 - hr.responseTime)
    + Min(100 * ScoreScale, hr.uptime)
    + ScoreScale * Max(0, 100 - hr.load * 20)
    + ScoreScale * Max(0, 100 - hr.memoryUsage)
    + ScoreScale * Max(0, 100 - hr.diskUsage)

\* C23: for every health row, also with response time 0 or -1, the score is
\* max(0, 100 - responseTime) + min(100, uptime / 3600) + max(0, 100 - load * 20)
\* + max(0, 100 - memoryUsage) + max(0, 100 - diskUsage).
C23_ScoreFormula ==
    Picked("score") => evalOut.score = ComposedScore(evalIn.row)


\* ---------------------------------------------------------------------------
\* Interleavings
\* ---------------------------------------------------------------------------
\* C26: whatever the interleaving of startHealthChecks and stopHealthChecks,
\* at most one interval timer is armed, and one is armed only while the
\* service is marked running.
C26_OneTimerOnlyWhileRunning ==
    /\ Cardinality(timers) <= 1
    /\ timers # {} => isRunning

LbRecords(recs) == SelectSeq(recs, LAMBDA r : r.name = lbRecordName /\ r.type = "A")

\* C28: the balancer's domain holds at most one A record named
\* <balancer>.<domain>, whatever the interleaving of cycles and update-dns
\* requests.
C28_OneBalancerRecord == Len(LbRecords(records[lbDomain])) <= 1


C27_NoStarvation ==
    \A s \in ServerIds :
        (Len(evalIn.servers) >= 2 /\ InList(s, evalIn.servers))
            ~> (evalOut # NoHealth /\ evalOut.server = s)


\* ---------------------------------------------------------------------------
\* Deleting a server
\* ---------------------------------------------------------------------------
RemovalEnds == removal.pc # "done" /\ removal'.pc = "done"

\* C29: every health row refers to a server of table DNSServer, and a
\* delete-server request that does not fail on the database itself ends with
\* the server and its health row removed.
C29_RowsHaveServers == \A i \in 1..Len(health) : InList(health[i].serverId, lbServers)

C29_DeleteRemovesBoth ==
    /\ [](C29_RowsHaveServers)
    /\ [][(RemovalEnds /\ removal'.cause # "database") =>
             /\ ~InList(removal'.server, lbServers')
             /\ ~hasHealthRow(health', removal'.server)]_vars

====
